---- MODULE Spec2Model ----
(***************************************************************************)
(* snakespawn: a script declares its Python requirement and pip            *)
(* dependencies in "#|" lines; main() finds a matching interpreter,        *)
(* builds a venv and execs the script in it.                               *)
(*                                                                         *)
(* Text is modelled as sequences of one-character strings, so that strip,  *)
(* split, int() and the regular expressions are computed, not assumed.     *)
(* Filesystem paths are sequences of component names.                      *)
(***************************************************************************)
EXTENDS Integers, Sequences, FiniteSets, TLC

(***************************************************************************)
(* Bounds of the model                                                     *)
(***************************************************************************)
\* longest list of trailing command-line arguments
MaxArgs == 2

(***************************************************************************)
(* Python built-ins used by the program                                    *)
(***************************************************************************)
Digits == {"0", "1", "2", "3", "4", "5", "6", "7", "8", "9"}

Whitespace == {" ", "\n", "\t"}

DigitVal(c) ==
    CASE c = "0" -> 0 [] c = "1" -> 1 [] c = "2" -> 2 [] c = "3" -> 3
      [] c = "4" -> 4 [] c = "5" -> 5 [] c = "6" -> 6 [] c = "7" -> 7
      [] c = "8" -> 8 [] c = "9" -> 9

\* typing.Optional: None, or a value
None == [has |-> FALSE, val |-> <<>>]

Some(v) == [has |-> TRUE, val |-> v]

\* bool(x) of an Optional[str]: None and "" are falsy
truthy(o) == o.has /\ o.val # <<>>

RECURSIVE lstrip(_)
lstrip(s) ==
    IF s # <<>> /\ Head(s) \in Whitespace THEN lstrip(Tail(s)) ELSE s

RECURSIVE rstrip(_)
rstrip(s) ==
    IF s # <<>> /\ s[Len(s)] \in Whitespace
    THEN rstrip(SubSeq(s, 1, Len(s) - 1)) ELSE s

\* str.strip()
strip(s) == rstrip(lstrip(s))

\* str.find(sep) + 1: position of the first sep, 0 when there is none
find(s, sep) ==
    IF \E i \in 1..Len(s) : s[i] = sep
    THEN CHOOSE i \in 1..Len(s) : s[i] = sep /\ \A j \in 1..(i - 1) : s[j] # sep
    ELSE 0

\* str.split(sep, 1): one or two pieces
split1(s, sep) ==
    LET i == find(s, sep)
    IN  IF i = 0 THEN <<s>>
        ELSE <<SubSeq(s, 1, i - 1), SubSeq(s, i + 1, Len(s))>>

\* str.split(sep): every piece, empty pieces kept
RECURSIVE split(_, _)
split(s, sep) ==
    LET i == find(s, sep)
    IN  IF i = 0 THEN <<s>>
        ELSE <<SubSeq(s, 1, i - 1)>> \o split(SubSeq(s, i + 1, Len(s)), sep)

\* the digits of an int() literal: surrounding whitespace and one sign dropped
int_digits(s) ==
    LET t == strip(s)
    IN  IF t # <<>> /\ Head(t) \in {"+", "-"} THEN Tail(t) ELSE t

\* int(s) returns (TRUE) or raises ValueError (FALSE)
int_ok(s) ==
    LET d == int_digits(s)
    IN  d # <<>> /\ \A i \in 1..Len(d) : d[i] \in Digits

RECURSIVE digits_value(_)
digits_value(d) ==
    IF d = <<>> THEN 0
    ELSE 10 * digits_value(SubSeq(d, 1, Len(d) - 1)) + DigitVal(d[Len(d)])

\* int(s), for s with int_ok(s)
int(s) ==
    LET t == strip(s)
        v == digits_value(int_digits(s))
    IN  IF t # <<>> /\ Head(t) = "-" THEN 0 - v ELSE v

\* [int(bit) for bit in s.split('.')] returns (TRUE) or raises ValueError
ints_ok(s) ==
    LET bits == split(s, ".")
    IN  \A i \in 1..Len(bits) : int_ok(bits[i])

\* [int(bit) for bit in s.split('.')]
ints(s) ==
    LET bits == split(s, ".")
    IN  [i \in 1..Len(bits) |-> int(bits[i])]

\* list < list: lexicographic, a proper prefix is smaller
list_lt(a, b) ==
    \/ \E i \in 1..Len(a) :
          /\ i <= Len(b)
          /\ a[i] < b[i]
          /\ \A j \in 1..(i - 1) : a[j] = b[j]
    \/ /\ Len(a) < Len(b)
       /\ \A j \in 1..Len(a) : a[j] = b[j]

\* list >= list
list_ge(a, b) == ~list_lt(a, b)

\* re.fullmatch(r'\d+(\.\d+)*', s)
dotted_fullmatch(s) ==
    LET bits == split(s, ".")
    IN  \A i \in 1..Len(bits) :
           /\ bits[i] # <<>>
           /\ \A j \in 1..Len(bits[i]) : bits[i][j] \in Digits

\* re.match(r'\d+(\.\d+)*', s): the pattern matches some prefix of s
version_re_match(s) ==
    \E k \in 1..Len(s) : dotted_fullmatch(SubSeq(s, 1, k))

(***************************************************************************)
(* The host: the directories named by $PATH and the directory tree.        *)
(* tree maps each existing directory to its entries in scandir order;     *)
(* a path outside DOMAIN tree does not exist.                              *)
(***************************************************************************)
\* the characters of a file name
Chars(name) ==
    CASE name = "python" -> <<"p", "y", "t", "h", "o", "n">>
      [] name = "python2" -> <<"p", "y", "t", "h", "o", "n", "2">>
      [] name = "python3" -> <<"p", "y", "t", "h", "o", "n", "3">>
      [] name = "python3.9" -> <<"p", "y", "t", "h", "o", "n", "3", ".", "9">>
      [] name = "python3.10" ->
            <<"p", "y", "t", "h", "o", "n", "3", ".", "1", "0">>
      [] name = "python3.9-config" ->
            <<"p", "y", "t", "h", "o", "n", "3", ".", "9", "-", "c", "o", "n",
              "f", "i", "g">>
      [] name = "python3." -> <<"p", "y", "t", "h", "o", "n", "3", ".">>
      [] name = "bin" -> <<"b", "i", "n">>
      [] name = "cp39" -> <<"c", "p", "3", "9">>
      [] name = "README" -> <<"R", "E", "A", "D", "M", "E">>
      [] name = "3.9.7" -> <<"3", ".", "9", ".", "7">>
      [] name = "3.10.4" -> <<"3", ".", "1", "0", ".", "4">>

File(name) == [name |-> name, kind |-> "file"]

Dir(name) == [name |-> name, kind |-> "dir"]

UsrBin == <<"usr", "bin">>

UsrLocalBin == <<"usr", "local", "bin">>

\* '/opt/python'
OptPython == <<"opt", "python">>

\* os.path.expanduser('~/.pyenv/versions')
PyenvVersions == <<"home", "user", ".pyenv", "versions">>

\* nothing exists
WorldEmpty ==
    [env_path |-> <<UsrLocalBin, UsrBin>>,
     tree |-> [p \in {} |-> <<>>]]

\* one $PATH directory holding files and a directory with matching names
WorldPath ==
    [env_path |-> <<UsrLocalBin, UsrBin>>,
     tree |-> (UsrBin :> <<Dir("python"), File("python2"), File("python3.9"),
                          File("python3.9-config"), File("python3."),
                          File("python3")>>)
           @@ (Append(UsrBin, "python") :> <<>>)]

\* the same directory named twice in $PATH
WorldTwice ==
    [env_path |-> <<UsrBin, UsrBin>>,
     tree |-> (UsrBin :> <<File("python3"), Dir("bin")>>)
           @@ (Append(UsrBin, "bin") :> <<>>)]

\* $PATH names /usr, which has a bin subdirectory; an install under
\* /opt/python has an interpreter beside its bin directory
WorldNested ==
    [env_path |-> << <<"usr">> >>,
     tree |-> (<<"usr">> :> <<Dir("bin")>>)
           @@ (UsrBin :> <<File("python")>>)
           @@ (OptPython :> <<Dir("cp39"), File("README")>>)
           @@ (Append(OptPython, "cp39") :> <<File("python3"), Dir("bin")>>)
           @@ (Append(Append(OptPython, "cp39"), "bin") :>
                  <<File("python3.9")>>)]

\* pyenv installs only, scanned newest first
WorldPyenv ==
    [env_path |-> <<UsrBin>>,
     tree |-> (UsrBin :> <<File("python3")>>)
           @@ (PyenvVersions :> <<Dir("3.10.4"), Dir("3.9.7"), File("python3")>>)
           @@ (Append(PyenvVersions, "3.10.4") :> <<Dir("bin")>>)
           @@ (Append(Append(PyenvVersions, "3.10.4"), "bin") :>
                  <<File("python3.10")>>)
           @@ (Append(PyenvVersions, "3.9.7") :> <<Dir("bin")>>)
           @@ (Append(Append(PyenvVersions, "3.9.7"), "bin") :>
                  <<Dir("python3"), File("python")>>)
           @@ (Append(Append(Append(PyenvVersions, "3.9.7"), "bin"),
                      "python3") :> <<>>)]

\* one interpreter in each of the three sources
WorldAll ==
    [env_path |-> <<UsrBin>>,
     tree |-> (UsrBin :> <<File("python3")>>)
           @@ (OptPython :> <<Dir("cp39")>>)
           @@ (Append(OptPython, "cp39") :> <<Dir("bin")>>)
           @@ (Append(Append(OptPython, "cp39"), "bin") :> <<File("python")>>)
           @@ (PyenvVersions :> <<Dir("3.9.7")>>)
           @@ (Append(PyenvVersions, "3.9.7") :> <<Dir("bin")>>)
           @@ (Append(Append(PyenvVersions, "3.9.7"), "bin") :>
                  <<File("python3")>>)]

Worlds ==
    {WorldEmpty, WorldPath, WorldTwice, WorldNested, WorldPyenv, WorldAll}

(***************************************************************************)
(* Discovery                                                               *)
(***************************************************************************)
\* the last component of a path, and the directory holding it
basename(item) == item[Len(item)]

dirname(item) == SubSeq(item, 1, Len(item) - 1)

\* os.scandir(path) for an existing directory: its entries, as paths
scandir(w, path) ==
    [i \in 1..Len(w.tree[path]) |->
        [path |-> Append(path, w.tree[path][i].name),
         kind |-> w.tree[path][i].kind]]

\* safe_scan: FileNotFoundError becomes the empty iterable
safe_scan(w, path) ==
    IF path \in DOMAIN w.tree THEN scandir(w, path) ELSE <<>>

\* fnmatch of a name against 'python*'
glob_match(name) ==
    /\ Len(Chars(name)) >= 6
    /\ SubSeq(Chars(name), 1, 6) = <<"p", "y", "t", "h", "o", "n">>

\* pathlib.Path(root).glob('python*'): nothing for a missing directory
glob(w, root) ==
    LET found == SelectSeq(safe_scan(w, root),
                           LAMBDA e : glob_match(basename(e.path)))
    IN  [i \in 1..Len(found) |-> found[i].path]

\* PYTHONISH.fullmatch(name), PYTHONISH = ^python(3(\.\d+)?)?$
PYTHONISH(name) ==
    LET c == Chars(name)
        minor == SubSeq(c, 9, Len(c))
    IN  /\ glob_match(name)
        /\ \/ Len(c) = 6
           \/ Len(c) = 7 /\ c[7] = "3"
           \/ /\ Len(c) >= 9
              /\ c[7] = "3"
              /\ c[8] = "."
              /\ \A i \in 1..Len(minor) : minor[i] \in Digits

\* pathlib.Path.is_file()
is_file(w, item) ==
    /\ dirname(item) \in DOMAIN w.tree
    /\ \E i \in 1..Len(w.tree[dirname(item)]) :
          w.tree[dirname(item)][i] = File(basename(item))

\* look_for_pythons without its is_file() test
look_for_pythons_any_kind(w, root) ==
    SelectSeq(glob(w, root) \o glob(w, Append(root, "bin")),
              LAMBDA item : PYTHONISH(basename(item)))

\* look_for_pythons(root): root/python* then root/bin/python*
look_for_pythons(w, root) ==
    SelectSeq(glob(w, root) \o glob(w, Append(root, "bin")),
              LAMBDA item : PYTHONISH(basename(item)) /\ is_file(w, item))

\* yield from look_for_pythons(r) for each r of roots, in order
RECURSIVE chain_look(_, _)
chain_look(w, roots) ==
    IF roots = <<>> THEN <<>>
    ELSE look_for_pythons(w, Head(roots)) \o chain_look(w, Tail(roots))

\* [entry.path for entry in safe_scan(home) if entry.is_dir()]
installs_of(w, home) ==
    LET dirs == SelectSeq(safe_scan(w, home), LAMBDA e : e.kind = "dir")
    IN  [i \in 1..Len(dirs) |-> dirs[i].path]

iter_pythons_path(w) == chain_look(w, w.env_path)

iter_pythons_pyenv(w) == chain_look(w, installs_of(w, PyenvVersions))

iter_pythons_manylinux(w) == chain_look(w, installs_of(w, OptPython))

\* the itertools.chain of resolve_python
chain_potentials(w) ==
    iter_pythons_path(w) \o iter_pythons_manylinux(w) \o iter_pythons_pyenv(w)

(***************************************************************************)
(* The script's metadata                                                   *)
(***************************************************************************)
\* a line of the script: meta is "starts with #| and holds a colon";
\* key and value are the stripped text before and after the first colon
Meta(key, value) == [meta |-> TRUE, key |-> key, value |-> value]

Plain == [meta |-> FALSE, key |-> "", value |-> <<>>]

\* scan_metadata_lines: the (key, value) pairs of the #| lines
scan_metadata_lines(lines) == SelectSeq(lines, LAMBDA l : l.meta)

\* the loop of ReqsInfo.read_file over the scanned pairs
RECURSIVE read_pairs(_, _)
read_pairs(self, pairs) ==
    IF pairs = <<>> THEN self
    ELSE LET kv == Head(pairs)
             next == IF kv.key = "python"
                     THEN [self EXCEPT !.python = Some(kv.value)]
                     ELSE IF kv.key = "pip"
                     THEN [self EXCEPT !.deps = Append(self.deps, kv.value)]
                     ELSE self
         IN  read_pairs(next, Tail(pairs))

\* ReqsInfo.read_file
read_file(lines) ==
    read_pairs([python |-> None, deps |-> <<>>], scan_metadata_lines(lines))

Alpha == <<"a", "l", "p", "h", "a">>

Beta == <<"b", "e", "t", "a">>

\* the scripts the model runs
Scripts ==
    { <<>>,
      <<Plain, Meta("python", <<"3", ".", "9">>), Meta("pip", Alpha), Plain,
        Meta("name", Beta), Meta("pip", Beta)>>,
      <<Meta("pip", Beta), Meta("pip", Alpha), Meta("pip", Beta)>>,
      <<Meta("python", <<"a", "b", "c">>), Meta("python", <<"3", ".", "0">>)>>,
      <<Meta("python", <<"a", "b", "c">>), Meta("pip", Alpha)>>,
      <<Meta("python", <<"1", ".", "a">>)>>,
      <<Meta("python", <<>>)>> }

(***************************************************************************)
(* Probing                                                                 *)
(***************************************************************************)
PythonSp == <<"P", "y", "t", "h", "o", "n", " ">>

\* what subprocess.run([path, '-V'], ...) can do
Raised(exc) == [kind |-> exc, returncode |-> 0, stdout |-> <<>>]

Completed(rc, out) == [kind |-> "completed", returncode |-> rc, stdout |-> out]

RunResults ==
    { Raised("PermissionError"),
      Raised("TimeoutExpired"),
      Completed(1, <<>>),
      Completed(0, <<>>),
      Completed(0, <<"P", "y", "t", "h", "o", "n", "\n">>),
      Completed(0, <<"J", "y", "t", "h", "o", "n", " ", "3", ".", "9", "\n">>),
      Completed(0, PythonSp \o <<"3", "\n">>),
      Completed(0, PythonSp \o <<"3", ".", "8", ".", "1", "0", "\n">>),
      Completed(0, PythonSp \o <<"3", ".", "9", ".", "7", "\n">>),
      Completed(0, PythonSp \o <<"3", ".", "1", "0", ".", "0", "\n">>),
      Completed(0, PythonSp \o <<"3", ".", "1", "2", ".", "0", "r", "c", "1", "\n">>),
      Completed(0, PythonSp \o <<"3", ".", "9", ".", "7", "\n", "x", "\n">>) }

Return(v) == [raised |-> "", ret |-> v]

Raise(exc) == [raised |-> exc, ret |-> None]

\* python_version(path), given what subprocess.run did
python_version(r) ==
    IF r.kind = "TimeoutExpired" THEN Return(None)
    ELSE IF r.kind # "completed" THEN Raise(r.kind)
    ELSE IF r.returncode = 0
    THEN LET out == strip(r.stdout)
             parts == split1(out, " ")
         IN  IF Len(parts) # 2 THEN Raise("ValueError")
             ELSE IF parts[1] = <<"P", "y", "t", "h", "o", "n">>
                  THEN Return(Some(parts[2]))
                  ELSE Return(None)
    ELSE Return(None)

(***************************************************************************)
(* Resolution                                                              *)
(***************************************************************************)
\* the sort key of resolve_python
sort_key(pv) == IF pv.ver # <<>> THEN ints(pv.ver) ELSE <<>>

\* x placed before the first element with a smaller key
RECURSIVE insert_desc(_, _)
insert_desc(acc, x) ==
    IF acc = <<>> THEN <<x>>
    ELSE IF list_lt(sort_key(Head(acc)), sort_key(x)) THEN <<x>> \o acc
    ELSE <<Head(acc)>> \o insert_desc(Tail(acc), x)

\* sorted(pythons, key=..., reverse=True): descending, stable
RECURSIVE sorted_reverse(_)
sorted_reverse(pythons) ==
    IF pythons = <<>> THEN <<>>
    ELSE insert_desc(sorted_reverse(SubSeq(pythons, 1, Len(pythons) - 1)),
                     pythons[Len(pythons)])

paths_of(pythons) == [i \in 1..Len(pythons) |-> pythons[i].path]

\* the first probed version that int() rejects, 0 when there is none
first_bad(pythons) ==
    IF \E i \in 1..Len(pythons) : ~ints_ok(pythons[i].ver)
    THEN CHOOSE i \in 1..Len(pythons) :
            /\ ~ints_ok(pythons[i].ver)
            /\ \A j \in 1..(i - 1) : ints_ok(pythons[j].ver)
    ELSE 0

\* The generator resolve_python(version) from its FIXME on, run to its end
\* over the probed (path, version) pairs: the paths it yields, then how it
\* ends (StopIteration, SystemExit from sys.exit, or ValueError from int()).
resolve_python(version, pythons) ==
    IF truthy(version)
    THEN IF ~version_re_match(version.val)
         THEN [yielded |-> <<>>, end |-> "SystemExit"]
         ELSE IF ~ints_ok(version.val)
         THEN [yielded |-> <<>>, end |-> "ValueError"]
         ELSE LET looking_for_version == ints(version.val)
                  bad == first_bad(pythons)
                  seen == IF bad = 0 THEN pythons
                          ELSE SubSeq(pythons, 1, bad - 1)
              IN  [yielded |->
                      paths_of(SelectSeq(seen, LAMBDA pv :
                          list_ge(ints(pv.ver), looking_for_version))),
                   end |-> IF bad = 0 THEN "StopIteration" ELSE "ValueError"]
    ELSE IF first_bad(pythons) # 0
         THEN [yielded |-> <<>>, end |-> "ValueError"]
         ELSE [yielded |-> paths_of(sorted_reverse(pythons)),
               end |-> "StopIteration"]

(***************************************************************************)
(* Command line, environment, hand-off                                     *)
(***************************************************************************)
Tool == <<"snakespawn">>

ScriptPath == <<"script.py">>

ArgTokens == {<<"-v">>, <<"x">>}

\* sys.argv: the tool alone, or the tool, a script and trailing arguments
Argvs ==
    {<<Tool>>} \cup
    { <<Tool, ScriptPath>> \o a :
        a \in UNION {[1..n -> ArgTokens] : n \in 0..MaxArgs} }

\* parse_args, for len(sys.argv) >= 2
parse_args(sysargv) ==
    [filename |-> sysargv[2], scriptargs |-> SubSeq(sysargv, 3, Len(sysargv))]

\* the names tempfile.mkdtemp(prefix='snakespawn') may pick
TmpDirs == {<<"tmp", "snakespawn_k1">>, <<"tmp", "snakespawn_k2">>}

\* the command get_venv runs
venv_command(python, venvpath) == <<python, <<"-m">>, <<"venv">>, venvpath>>

\* f"{venvpath}/bin/python"
venv_python(venvpath) == Append(Append(venvpath, "bin"), "python")

\* an argument vector without the binary's own path in front
exec_argv_no_argv0(python, a) == <<a.filename>> \o a.scriptargs

\* the argument vector main passes to os.execv
exec_argv(python, a) == <<python, a.filename>> \o a.scriptargs

(***************************************************************************)
(* main(): one run of the tool                                             *)
(***************************************************************************)
VARIABLES
    argv,        \* sys.argv
    world,       \* the host's $PATH and directory tree
    pc,          \* where main() is
    args,        \* parse_args()
    info,        \* ReqsInfo.read_file()
    potentials,  \* the candidates the chain of resolve_python produces
    pythons,     \* the (path, version) pairs kept by resolve_python
    python,      \* main's variable python
    calls,       \* every process started, directory made and image replaced
    outcome      \* how the run ended

vars ==
    <<argv, world, pc, args, info, potentials, pythons, python, calls, outcome>>

\* outcome: kind, the message or exception, and the function it came from
Running == [kind |-> "running", what |-> "", at |-> ""]

\* sys.exit(message): SystemExit, status 1
Exit(what, at) == [kind |-> "exit", what |-> what, at |-> at]

\* an exception nobody catches
Traceback(exc, at) == [kind |-> "traceback", what |-> exc, at |-> at]

\* os.execv replaced the process image
Handoff == [kind |-> "handoff", what |-> "", at |-> "main"]

Call(fn, a) == [fn |-> fn, args |-> a]

\* the calls of one kind, in order
calls_of(fn) == SelectSeq(calls, LAMBDA c : c.fn = fn)

Init ==
    /\ argv \in Argvs
    /\ world \in Worlds
    /\ pc = "parse_args"
    /\ args = [filename |-> <<>>, scriptargs |-> <<>>]
    /\ info = [python |-> None, deps |-> <<>>]
    /\ potentials = <<>>
    /\ pythons = <<>>
    /\ python = None
    /\ calls = <<>>
    /\ outcome = Running

\* main: args = parse_args()
ParseArgs ==
    /\ pc = "parse_args"
    /\ IF Len(argv) < 2
       THEN /\ pc' = "done"
            /\ outcome' = Exit("Usage", "parse_args")
            /\ UNCHANGED args
       ELSE /\ pc' = "read_file"
            /\ args' = parse_args(argv)
            /\ UNCHANGED outcome
    /\ UNCHANGED <<argv, world, info, potentials, pythons, python, calls>>

\* main: open(args.filename) and ReqsInfo.read_file
ReadFile ==
    /\ pc = "read_file"
    /\ \/ /\ pc' = "done"
          /\ outcome' = Traceback("FileNotFoundError", "main")
          /\ UNCHANGED info
       \/ \E lines \in Scripts :
             /\ info' = read_file(lines)
             /\ pc' = "potentials"
             /\ UNCHANGED outcome
    /\ UNCHANGED <<argv, world, args, potentials, pythons, python, calls>>

\* resolve_python: the chain of the three sources
Potentials ==
    /\ pc = "potentials"
    /\ potentials' = chain_potentials(world)
    /\ pc' = "probe"
    /\ UNCHANGED <<argv, world, args, info, pythons, python, calls, outcome>>

\* resolve_python: python_version of the next candidate, kept if truthy;
\* until resolution the only calls are the probes, one per candidate so far
Probe ==
    /\ pc = "probe"
    /\ Len(calls) < Len(potentials)
    /\ \E r \in RunResults :
          LET path == potentials[Len(calls) + 1]
              v == python_version(r)
          IN  /\ calls' = Append(calls, Call("subprocess.run", <<path, <<"-V">>>>))
              /\ IF v.raised # ""
                 THEN /\ pc' = "done"
                      /\ outcome' = Traceback(v.raised, "python_version")
                      /\ UNCHANGED pythons
                 ELSE /\ pythons' =
                            IF truthy(v.ret)
                            THEN Append(pythons, [path |-> path, ver |-> v.ret.val])
                            ELSE pythons
                      /\ UNCHANGED <<pc, outcome>>
    /\ UNCHANGED <<argv, world, args, info, potentials, python>>

\* resolve_python from its FIXME on, and main's next(...)
Resolve ==
    /\ pc = "probe"
    /\ Len(calls) = Len(potentials)
    /\ LET g == resolve_python(info.python, pythons)
       IN  IF g.yielded # <<>>
           THEN /\ python' = Some(Head(g.yielded))
                /\ pc' = "get_venv"
                /\ UNCHANGED outcome
           ELSE /\ pc' = "done"
                /\ outcome' =
                      IF g.end = "StopIteration"
                      THEN Exit("Could not find a Python", "main")
                      ELSE IF g.end = "SystemExit"
                      THEN Exit("Currently only supports", "resolve_python")
                      ELSE Traceback(g.end, "resolve_python")
                /\ UNCHANGED python
    /\ UNCHANGED <<argv, world, args, info, potentials, pythons, calls>>

\* main: python = get_venv(python, info.deps)
GetVenv ==
    /\ pc = "get_venv"
    /\ \/ /\ pc' = "done"
          /\ outcome' = Traceback("OSError", "get_venv")
          /\ UNCHANGED <<python, calls>>
       \/ \E venvpath \in TmpDirs, ok \in BOOLEAN :
             /\ calls' = calls \o
                   <<Call("tempfile.mkdtemp", <<venvpath>>),
                     Call("subprocess.run", venv_command(python.val, venvpath))>>
             /\ IF ok
                THEN /\ python' = Some(venv_python(venvpath))
                     /\ pc' = "execv"
                     /\ UNCHANGED outcome
                ELSE /\ pc' = "done"
                     /\ outcome' = Traceback("CalledProcessError", "get_venv")
                     /\ UNCHANGED python
    /\ UNCHANGED <<argv, world, args, info, potentials, pythons>>

\* main: os.execv(python, [python, args.filename] + args.scriptargs)
Execv ==
    /\ pc = "execv"
    /\ pc' = "done"
    /\ \/ /\ calls' = Append(calls, Call("os.execv",
                                          <<python.val, exec_argv(python.val, args)>>))
          /\ outcome' = Handoff
       \/ /\ outcome' = Traceback("OSError", "main")
          /\ UNCHANGED calls
    /\ UNCHANGED <<argv, world, args, info, potentials, pythons, python>>

Next ==
    \/ ParseArgs
    \/ ReadFile
    \/ Potentials
    \/ Probe
    \/ Resolve
    \/ GetVenv
    \/ Execv

Spec == Init /\ [][Next]_vars

(***************************************************************************)
(* Properties                                                              *)
(***************************************************************************)
Range(f) == {f[i] : i \in DOMAIN f}

\* the probes: subprocess.run([path, '-V'], ...)
probe_calls ==
    SelectSeq(calls, LAMBDA c : c.fn = "subprocess.run" /\ c.args[2] = <<"-V">>)

\* position of the first call of a kind, 0 when there is none
first_call(fn) ==
    IF \E i \in 1..Len(calls) : calls[i].fn = fn
    THEN CHOOSE i \in 1..Len(calls) :
            calls[i].fn = fn /\ \A j \in 1..(i - 1) : calls[j].fn # fn
    ELSE 0

\* a supplied requirement outside the grammar digits ('.' digits)*
malformed(version) == truthy(version) /\ ~dotted_fullmatch(version.val)

\* a supplied requirement inside the grammar
wellformed(version) == truthy(version) /\ dotted_fullmatch(version.val)

\* every candidate has been probed and resolution is about to run
AllProbed == pc = "probe" /\ Len(calls) = Len(potentials)

\* the processes started after the environment directory was made that
\* name a declared dependency on their command line
install_calls ==
    LET made == first_call("tempfile.mkdtemp")
    IN  SelectSeq(SubSeq(calls, made + 1, Len(calls)),
                  LAMBDA c : /\ c.fn = "subprocess.run"
                             /\ \E d \in Range(info.deps) : d \in Range(c.args))

\* C1: a run that reaches hand-off has installed every declared dependency,
\* one install per dependency and in declared order, after the environment
\* was created and before the process image is replaced.
C1_DepsInstalledBeforeHandoff ==
    outcome = Handoff =>
        /\ Len(install_calls) = Len(info.deps)
        /\ \A i \in 1..Len(info.deps) :
              info.deps[i] \in Range(install_calls[i].args)

\* C2: when resolve_python is given a non-empty requirement that is not a
\* complete dotted sequence of integers, the run ends with the dedicated
\* "only supports x.y.z" exit and with nothing else.
C2_MalformedRequirementExits ==
    (pc = "done" /\ outcome.at = "resolve_python" /\ malformed(info.python))
        => outcome = Exit("Currently only supports", "resolve_python")

\* C3: in a run whose declared requirement is malformed no candidate is ever
\* probed.
C3_NoProbeWhenMalformed ==
    malformed(info.python) => probe_calls = <<>>

\* C4: python_version never raises to its caller, whatever the candidate
\* does; a bad candidate is only left out.
C4_ProbeNeverRaises ==
    ~(outcome.kind = "traceback" /\ outcome.at = "python_version")

\* C10: every version python_version returns, hence every version kept in
\* pythons, is a dot-separated sequence of non-negative integers.
C10_ProbedVersionsAreDotted ==
    \A i \in 1..Len(pythons) : dotted_fullmatch(pythons[i].ver)

\* the versions that satisfy a requirement: dotted integers, compared
\* component by component, a proper prefix being smaller
satisfies(ver, req) ==
    dotted_fullmatch(ver) /\ list_ge(ints(ver), ints(req))

\* C5: with a valid requirement, resolve_python yields exactly the probed
\* candidates whose version is at least the requirement, in discovery order.
C5_RequirementYieldsAllAtLeast ==
    (AllProbed /\ wellformed(info.python)) =>
        resolve_python(info.python, pythons).yielded =
            paths_of(SelectSeq(pythons, LAMBDA pv :
                satisfies(pv.ver, info.python.val)))

\* C6: with no requirement, resolve_python yields every candidate that has
\* a version, by version descending, equal versions in discovery order.
C6_NoRequirementYieldsAllSorted ==
    (AllProbed /\ ~truthy(info.python)) =>
        LET y == resolve_python(info.python, pythons).yielded
        IN  /\ Len(y) = Len(pythons)
            /\ \E f \in Permutations(1..Len(pythons)) :
                  /\ \A i \in 1..Len(y) : y[i] = pythons[f[i]].path
                  /\ \A i, j \in 1..Len(y) :
                        i < j =>
                            /\ list_ge(ints(pythons[f[i]].ver),
                                       ints(pythons[f[j]].ver))
                            /\ ints(pythons[f[i]].ver) = ints(pythons[f[j]].ver)
                                  => f[i] < f[j]

\* the run reached resolve_python
ReachedResolution ==
    /\ pc = "done"
    /\ outcome # Exit("Usage", "parse_args")
    /\ outcome # Traceback("FileNotFoundError", "main")

\* a probed candidate the resolver may yield: its version is usable and
\* meets the requirement, if there is one
qualifies(pv) ==
    /\ dotted_fullmatch(pv.ver)
    /\ truthy(info.python) => satisfies(pv.ver, info.python.val)

\* the run is over, every candidate was probed, the requirement (if any) is
\* well formed and no probed candidate qualifies
EmptyResult ==
    /\ ReachedResolution
    /\ Len(probe_calls) = Len(potentials)
    /\ ~malformed(info.python)
    /\ \A i \in 1..Len(pythons) : ~qualifies(pythons[i])

\* C7: the selected runtime was probed successfully; the environment is
\* created at most once and only for a selected runtime; and a run in which
\* no candidate is yielded ends with the "Could not find a Python" exit,
\* with no environment directory made and no hand-off.
C7_SelectionAndEmptyResult ==
    /\ pc = "get_venv" => python.has /\ python.val \in Range(paths_of(pythons))
    /\ Len(calls_of("tempfile.mkdtemp")) <= 1
    /\ calls_of("tempfile.mkdtemp") # <<>> =>
          /\ pc \in {"execv", "done"}
          /\ calls[first_call("tempfile.mkdtemp") + 1].args[1]
                \in Range(paths_of(pythons))
    /\ EmptyResult =>
          /\ outcome = Exit("Could not find a Python", "main")
          /\ calls_of("tempfile.mkdtemp") = <<>>
          /\ calls_of("os.execv") = <<>>

\* the entries of a directory, none when it does not exist
entries(d) == IF d \in DOMAIN world.tree THEN world.tree[d] ELSE <<>>

\* the subdirectories of an installs root
subdirs(home) ==
    {Append(home, e.name) : e \in {x \in Range(entries(home)) : x.kind = "dir"}}

\* the names of the runtime family: python, python3, python3.<minor>
FamilyNames == {"python", "python3", "python3.9", "python3.10"}

\* item is a regular file with a family name in one of dirs
matching_file(item, dirs) ==
    /\ dirname(item) \in dirs
    /\ basename(item) \in FamilyNames
    /\ File(basename(item)) \in Range(entries(dirname(item)))

\* the union of D(r) over the roots r
dirs_of(D(_), roots) == UNION {D(r) : r \in roots}

\* The candidate sequence when a search-path directory r is searched in the
\* directories PD(r) and an install r in the directories ID(r): every
\* candidate is a matching regular file of a searched directory; search-path
\* candidates come first, then /opt/python's, then pyenv's; within a source
\* the roots keep their order, a root comes before its subdirectory and the
\* files of one directory keep their scan order (nothing is sorted); every
\* matching file is there once for each root that searches its directory
\* (nothing is dropped or merged).
LocatorContract(PD(_), ID(_)) ==
    LET n == Len(potentials)
        A == dirs_of(PD, Range(world.env_path))
        B == dirs_of(ID, subdirs(OptPython))
        C == dirs_of(ID, subdirs(PyenvVersions))
        occurrences(item) == Cardinality({k \in 1..n : potentials[k] = item})
        expected(item) ==
            Cardinality({k \in 1..Len(world.env_path) :
                            dirname(item) \in PD(world.env_path[k])})
            + Cardinality({r \in subdirs(OptPython) : dirname(item) \in ID(r)})
            + Cardinality({r \in subdirs(PyenvVersions) : dirname(item) \in ID(r)})
        position(item) ==
            CHOOSE k \in 1..Len(entries(dirname(item))) :
                entries(dirname(item))[k].name = basename(item)
        path_rank(item) ==
            CHOOSE k \in 1..Len(world.env_path) :
                /\ dirname(item) \in PD(world.env_path[k])
                /\ \A m \in 1..(k - 1) : dirname(item) \notin PD(world.env_path[m])
        install_rank(home, item) ==
            CHOOSE k \in 1..Len(entries(home)) :
                dirname(item) \in ID(Append(home, entries(home)[k].name))
        before(x, y, rx, ry) ==
            \/ rx < ry
            \/ /\ rx = ry
               /\ \/ Len(dirname(x)) < Len(dirname(y))
                  \/ dirname(x) = dirname(y) /\ position(x) < position(y)
        once(k) == occurrences(potentials[k]) = 1
    IN  /\ \E i, j \in 0..n :
              /\ i <= j
              /\ \A k \in 1..n :
                    /\ k <= i => matching_file(potentials[k], A)
                    /\ (i < k /\ k <= j) => matching_file(potentials[k], B)
                    /\ j < k => matching_file(potentials[k], C)
              /\ \A k, l \in 1..n :
                    (k < l /\ once(k) /\ once(l)) =>
                        LET x == potentials[k]
                            y == potentials[l]
                        IN  /\ l <= i =>
                                  before(x, y, path_rank(x), path_rank(y))
                            /\ (i < k /\ l <= j) =>
                                  before(x, y, install_rank(OptPython, x),
                                         install_rank(OptPython, y))
                            /\ j < k =>
                                  before(x, y, install_rank(PyenvVersions, x),
                                         install_rank(PyenvVersions, y))
        /\ \A d \in A \cup B \cup C :
              \A k \in 1..Len(entries(d)) :
                 LET item == Append(d, entries(d)[k].name)
                 IN  matching_file(item, {d}) =>
                        occurrences(item) = expected(item)

\* the candidates have been computed
Located == pc \in {"probe", "get_venv", "execv"}

starts_with(s, t) == Len(t) <= Len(s) /\ SubSeq(s, 1, Len(t)) = t

\* C9: the process image is replaced at most once, by the runtime inside
\* the directory get_venv made (not the discovered runtime), with the
\* argument vector [that binary, the script path, every trailing argument
\* in order]; only after the environment was built; a provisioning failure
\* ends the run with no hand-off.
C9_HandoffToProvisionedRuntime ==
    LET ex == calls_of("os.execv")
        made == first_call("tempfile.mkdtemp")
    IN  /\ Len(ex) <= 1
        /\ outcome = Handoff <=> Len(ex) = 1
        /\ outcome.at = "get_venv" => ex = <<>>
        /\ Len(ex) = 1 =>
              /\ made > 0
              /\ calls[Len(calls)] = ex[1]
              /\ calls[Len(calls) - 1].fn = "subprocess.run"
              /\ calls[Len(calls) - 1].args[4] = calls[made].args[1]
              /\ starts_with(ex[1].args[1], calls[made].args[1])
              /\ ex[1].args[1] \notin Range(potentials)
              /\ ex[1].args[1] = python.val
              /\ ex[1].args[2] = <<ex[1].args[1]>> \o Tail(argv)

\* a hand-off with two different trailing arguments
C9_Witness ==
    /\ outcome = Handoff
    /\ Len(argv) = 4
    /\ argv[3] # argv[4]

====
